---- MODULE Spec2Model ----
(***************************************************************************)
(* A model of the pairs-trading pipeline of scripts/02..05:                *)
(*   02_correlation_pairs / 03_chi_square_pairs  ranking of ticker pairs   *)
(*   04_common_pairs_stationarity                intersection, ADF choice  *)
(*   05_backtest_pairs_strategy                  signals, PnL, portfolio   *)
(* Each stage is a specification of its own over the shared variables.     *)
(***************************************************************************)
EXTENDS Integers, Sequences, FiniteSets, TLC

VARIABLES
    \* ---- build_signals (05, lines 13-36), one date per step
    metric,      \* the trailing rolling(20) window of the metric series read so far
    entry,       \* parameter entry, a rational <<num, den>>
    exit_band,   \* parameter exit_band, a rational <<num, den>>
    current,     \* the loop variable current
    carried,     \* the value of current on entry to the latest iteration
    val,         \* z[i] of the latest iteration
    pos,         \* pos.iat[i] of the latest iteration
    posPrev,     \* pos.iat[i-1] (the initial fill 0 before the first date)
    \* ---- backtest_pair (05, lines 39-46), one call
    price1,      \* argument price1, a sequence over the pair's aligned dates
    price2,      \* argument price2
    position,    \* argument position
    pnl,         \* the returned series
    returned,    \* whether backtest_pair has returned
    \* ---- main of 05 (lines 49-106), one selected row per step
    close,               \* the price table: ticker -> date -> price or NaN
    stationarity,        \* the rows read from the stationarity file
    initial_capital,     \* args.initial_capital
    rowIdx,              \* the position of the loop in selected
    portfolio_daily_pnl, \* date -> running portfolio PnL
    summary_rows,        \* the list summary_rows
    debug,               \* the signals_*.parquet frames written so far
    summary,             \* the sorted summary written at the end
    equity_curve,        \* the portfolio equity curve written at the end
    pc,                  \* "loop", "done", or "raised" (an uncaught exception)
    \* ---- 02, 03 and the intersection of 04 (lines 34-36)
    closeCols,   \* close.columns, in table order
    upCols,      \* up.columns, in table order
    corr,        \* close.corr(): unordered pair -> coefficient (x10) or NaN
    chi,         \* pair_chi_square: unordered pair -> chi2 or NaN for None
    top_n,       \* args.top_n
    corr_top,    \* top100_corr_pairs.csv
    chi_top,     \* top100_chi_square_pairs.csv
    common,      \* the sorted intersection
    stage,       \* which script runs next: "corr", "chi", "common", "done"
    \* ---- adf_test and the metric choice of 04 (lines 13-18, 51-60)
    spread_len,  \* len(spread.dropna())
    ratio_len,   \* len(ratio.dropna())
    spread_adf,  \* the p-value adfuller gives for the spread, in percent
    ratio_adf,   \* the p-value adfuller gives for the ratio, in percent
    result,      \* the row appended to rows
    classified   \* whether the row has been appended

sigVars == <<metric, entry, exit_band, current, carried, val, pos, posPrev>>
btVars == <<price1, price2, position, pnl, returned>>
mainVars == <<close, stationarity, initial_capital, rowIdx, portfolio_daily_pnl,
              summary_rows, debug, summary, equity_curve, pc>>
screenVars == <<closeCols, upCols, corr, chi, top_n, corr_top, chi_top, common, stage>>
adfVars == <<spread_len, ratio_len, spread_adf, ratio_adf, result, classified>>
vars == <<sigVars, btVars, mainVars, screenVars, adfVars>>
notSig == <<btVars, mainVars, screenVars, adfVars>>
notBt == <<sigVars, mainVars, screenVars, adfVars>>
notMain == <<sigVars, btVars, screenVars, adfVars>>
notScreen == <<sigVars, btVars, mainVars, adfVars>>
notAdf == <<sigVars, btVars, mainVars, screenVars>>

----------------------------------------------------------------------------
(* Bounds and program constants *)

\* at most this many value changes inside any 20-date window of the input
MaxChanges == 2

\* backtest_pair is called on series of 1..MaxT dates
MaxT == 3
\* the price table of main has the dates 1..NDates
NDates == 31
\* the stationarity file has at most MaxRows rows
MaxRows == 2

\* top_n ranges over 1..MaxTopN
MaxTopN == 2
\* adfuller's p-values range over 0..MaxP percent
MaxP == 7

\* len(pair) < 30 skips the pair
MinPairLen == 30
\* adf_test(series, min_obs=100)
MinObs == 100
\* pval < 0.05, in percent
Alpha == 5

ShortWin == 5
LongWin == 20

----------------------------------------------------------------------------
(* Floating-point values that matter to the control flow *)

Num(n) == <<"num", n>>
PosInf == <<"inf", 1>>
NegInf == <<"inf", -1>>
NaN == <<"nan", 0>>
IsNum(x) == x[1] = "num"

RECURSIVE SumSeq(_)
SumSeq(s) == IF s = <<>> THEN 0 ELSE Head(s) + SumSeq(Tail(s))

Last(s, k) == SubSeq(s, Len(s) - k + 1, Len(s))
Raw(s) == [j \in 1..Len(s) |-> s[j][2]]
Squares(s) == [j \in 1..Len(s) |-> s[j] * s[j]]

\* pandas rolling(k): NaN until k values are in the window; inf is read as NaN
WindowDefined(s, k) == Len(s) >= k /\ \A j \in (Len(s) - k + 1)..Len(s) : IsNum(s[j])

\* metric.rolling(5).mean(), times 20
Ma5(s) == 4 * SumSeq(Raw(Last(s, ShortWin)))
\* metric.rolling(20).mean(), times 20
Ma20(s) == SumSeq(Raw(Last(s, LongWin)))
\* metric.rolling(20).std(ddof=0), squared, times 400
Std20(s) == LongWin * SumSeq(Squares(Raw(Last(s, LongWin)))) - Ma20(s) * Ma20(s)

\* z = (ma5 - ma20) / std20 at the last date of s: <<"z", n, v>> is n / sqrt(v)
ZScore(s) ==
    IF ~(WindowDefined(s, ShortWin) /\ WindowDefined(s, LongWin)) THEN NaN
    ELSE LET n == Ma5(s) - Ma20(s)
             v == Std20(s)
         IN  IF v = 0 THEN (IF n = 0 THEN NaN ELSE IF n > 0 THEN PosInf ELSE NegInf)
             ELSE <<"z", n, v>>

IsNaN(z) == z[1] = "nan"

\* z > q and z < -q and -q <= z <= q, for a rational q = <<a, b>>, a >= 0, b > 0
Above(z, q) ==
    IF z[1] = "inf" THEN z[2] > 0
    ELSE z[2] > 0 /\ q[2] * q[2] * z[2] * z[2] > q[1] * q[1] * z[3]
Below(z, q) ==
    IF z[1] = "inf" THEN z[2] < 0
    ELSE z[2] < 0 /\ q[2] * q[2] * z[2] * z[2] > q[1] * q[1] * z[3]
Within(z, q) ==
    IF z[1] = "inf" THEN FALSE
    ELSE q[2] * q[2] * z[2] * z[2] <= q[1] * q[1] * z[3]

----------------------------------------------------------------------------
(* backtest_pair *)

\* Series.diff(): NaN on the first date, then the day-over-day change
Diff(s) == [t \in 1..Len(s) |-> IF t = 1 THEN NaN ELSE Num(s[t] - s[t - 1])]
\* Series.shift(1): NaN on the first date, then the previous date's value
Shift(s) == [t \in 1..Len(s) |-> IF t = 1 THEN NaN ELSE Num(s[t - 1])]
\* Series.fillna(x)
FillNa(s, x) == [t \in DOMAIN s |-> IF IsNum(s[t]) THEN s[t][2] ELSE x]

\* the position of the same date weights the return
MutBacktestNoLag(p1, p2, posn) ==
    LET ret1 == FillNa(Diff(p1), 0)
        ret2 == FillNa(Diff(p2), 0)
    IN  [t \in 1..Len(p1) |-> posn[t] * (ret1[t] - ret2[t])]

BacktestPair(p1, p2, posn) ==
    LET ret1 == FillNa(Diff(p1), 0)
        ret2 == FillNa(Diff(p2), 0)
        held == FillNa(Shift(posn), 0)
    IN  [t \in 1..Len(p1) |-> held[t] * (ret1[t] - ret2[t])]

----------------------------------------------------------------------------
(* build_signals: the position loop *)

\* the entry signs exchanged
MutDecideSwapped(cur, z, en, ex) ==
    IF cur = 0
    THEN IF Above(z, en) THEN 1
         ELSE IF Below(z, en) THEN -1
         ELSE cur
    ELSE IF Within(z, ex) THEN 0 ELSE cur

\* re-entry in the opposite direction without passing through FLAT
MutDecideFlip(cur, z, en, ex) ==
    IF Above(z, en) THEN -1
    ELSE IF Below(z, en) THEN 1
    ELSE IF cur # 0 /\ Within(z, ex) THEN 0 ELSE cur

\* every crossing adds a unit instead of setting the state
MutDecideAccumulate(cur, z, en, ex) ==
    IF Above(z, en) THEN cur - 1
    ELSE IF Below(z, en) THEN cur + 1
    ELSE IF Within(z, ex) THEN 0 ELSE cur

\* the body of the loop for a defined z: the new value of current
Decide(cur, z, en, ex) ==
    IF cur = 0
    THEN IF Above(z, en) THEN -1
         ELSE IF Below(z, en) THEN 1
         ELSE cur
    ELSE IF Within(z, ex) THEN 0 ELSE cur

\* an undefined z closes the position
MutLoopBodyFlat(cur, z, en, ex) == IF IsNaN(z) THEN 0 ELSE Decide(cur, z, en, ex)

\* one iteration of "for i, val in enumerate(z)"
LoopBody(cur, z, en, ex) == IF IsNaN(z) THEN cur ELSE Decide(cur, z, en, ex)

\* the values a metric takes: two levels, x/0 (inf) and 0/0 (NaN)
MetricValues == {Num(0), Num(1), PosInf, NaN}
\* <<entry, exit_band>>: the defaults 1.25 and 1.0, and 1.0 with 0.5
DefaultParams == <<<<5, 4>>, <<1, 1>>>>
ParamValues == {DefaultParams, <<<<1, 1>>, <<1, 2>>>>}

Changes(s) == Cardinality({j \in 1..(Len(s) - 1) : s[j] # s[j + 1]})
Push(s, x) == IF Len(s) < LongWin THEN Append(s, x) ELSE Append(Tail(s), x)

\* build_signals on a whole series: the position column
RECURSIVE SignalsFrom(_, _, _, _, _, _)
SignalsFrom(m, i, cur, acc, en, ex) ==
    IF i > Len(m) THEN acc
    ELSE LET nxt == LoopBody(cur, ZScore(SubSeq(m, 1, i)), en, ex)
         IN  SignalsFrom(m, i + 1, nxt, Append(acc, nxt), en, ex)
BuildSignals(m, en, ex) == SignalsFrom(m, 1, 0, <<>>, en, ex)

----------------------------------------------------------------------------
(* main of 05: the price table, the loop over the selected rows *)

Dates == 1..NDates

\* prices of the three tickers of the table: A steps up after LongWin dates
\* and again three dates later, B is constant, C steps down at the same dates
PriceA == [d \in Dates |-> IF d <= LongWin THEN 10 ELSE IF d <= LongWin + 3 THEN 11 ELSE 13]
PriceB == [d \in Dates |-> 5]
PriceC == [d \in Dates |-> IF d <= LongWin THEN 4 ELSE IF d <= LongWin + 3 THEN 2 ELSE 1]

\* a column of the wide table: NaN on the dates the ticker has no price
Column(series, gap) == [d \in Dates |-> IF d \in gap THEN NaN ELSE Num(series[d])]

\* the dates missing from a column: none, the first, the last, or so many that
\* fewer than MinPairLen remain
NoGap == {}
FirstGap == {1}
LastGap == {NDates}
LongGap == 1..(NDates - MinPairLen + 1)

CloseTables ==
    {[A |-> Column(PriceA, ga), B |-> Column(PriceB, gb), C |-> Column(PriceC, NoGap)] :
        ga \in {NoGap, FirstGap}, gb \in {NoGap, LastGap, LongGap}}

Row(s1, s2, m) == [stock_1 |-> s1, stock_2 |-> s2, preferred_metric |-> m]
RowValues ==
    {Row("A", "B", "spread"), Row("A", "C", "ratio"), Row("B", "C", "spread"),
     Row("A", "D", "ratio"), Row("B", "A", "none")}
Injective(f) == \A i, j \in DOMAIN f : f[i] = f[j] => i = j
RowSeqs == UNION {{q \in [1..n -> RowValues] : Injective(q)} : n \in 0..MaxRows}
CapitalValues == {0, 1000}

Range2(q) == {q[i] : i \in DOMAIN q}

RECURSIVE SelectSeq2(_, _)
SelectSeq2(q, keep) ==
    IF q = <<>> THEN <<>>
    ELSE (IF Head(q) \in keep THEN <<Head(q)>> ELSE <<>>) \o SelectSeq2(Tail(q), keep)

\* stationarity[stationarity["preferred_metric"].isin(["spread", "ratio"])]
Selected(rows) ==
    SelectSeq2(rows, {r \in Range2(rows) : r.preferred_metric \in {"spread", "ratio"}})

RECURSIVE Ascending(_)
Ascending(S) ==
    IF S = {} THEN <<>>
    ELSE LET m == CHOOSE x \in S : \A y \in S : x <= y
         IN  <<m>> \o Ascending(S \ {m})

\* close[[s1, s2]].dropna(): the dates where both legs have a price
PairDates(cl, s1, s2) == Ascending({d \in Dates : IsNum(cl[s1][d]) /\ IsNum(cl[s2][d])})
Leg(cl, s, dts) == [k \in 1..Len(dts) |-> cl[s][dts[k]][2]]

\* ratios are kept in fixed point: a metric value n stands for n / Scale, where
\* Scale is the least common multiple of the prices a ratio row divides by
\* (z = (ma5 - ma20) / std20 does not change when the metric is scaled)
RatioDivisors == {PriceC[d] : d \in Dates}
Scale ==
    CHOOSE n \in 1..16 :
        /\ \A v \in RatioDivisors : n % v = 0
        /\ \A k \in 1..(n - 1) : \E v \in RatioDivisors : k % v # 0

Divide(a, b) ==
    IF b = 0 THEN (IF a = 0 THEN NaN ELSE IF a > 0 THEN PosInf ELSE NegInf)
    ELSE Num((a * Scale) \div b)

\* pair[s1] - pair[s2] if metric_name == "spread" else pair[s1] / pair[s2]
PairMetric(name, p1, p2) ==
    [k \in 1..Len(p1) |->
        IF name = "spread" THEN Num((p1[k] - p2[k]) * Scale) ELSE Divide(p1[k], p2[k])]

\* (sig["position"].diff().abs() > 0).sum()
TradeSwitches(posn) == Cardinality({t \in 2..Len(posn) : posn[t] # posn[t - 1]})

\* pnl.reindex(index): NaN on the dates of index the pair does not have
Reindex(series, dts, index) ==
    [d \in index |->
        IF \E k \in 1..Len(dts) : dts[k] = d
        THEN Num(series[CHOOSE k \in 1..Len(dts) : dts[k] = d])
        ELSE NaN]

\* the pair's series replaces the running sum
MutAddFill(a, b) == b

\* a.add(b, fill_value=0.0): over the union of the two indexes
AddFill(a, b) ==
    [d \in (DOMAIN a) \cup (DOMAIN b) |->
        (IF d \in DOMAIN a THEN a[d] ELSE 0) + (IF d \in DOMAIN b THEN b[d] ELSE 0)]

\* Series.cumsum() over a series indexed 1..n
CumSum(f) == [d \in DOMAIN f |-> SumSeq(SubSeq(f, 1, d))]

\* sort_values(key, ascending=False) with the default kind="quicksort", which
\* is not stable: any descending order of the rows is a possible result
SortValues(rows, by) ==
    {[i \in 1..Len(rows) |-> rows[p[i]]] :
        p \in {q \in [1..Len(rows) -> 1..Len(rows)] :
                  /\ Injective(q)
                  /\ \A i, j \in 1..Len(rows) :
                        i < j => rows[q[i]][by] >= rows[q[j]][by]}}

----------------------------------------------------------------------------
(* 02_correlation_pairs, 03_chi_square_pairs and the intersection of 04 *)

Tickers == {"A", "B", "C"}
\* the order of the ticker symbols as Python compares strings
TickerOrder == [t \in Tickers |-> CASE t = "A" -> 1 [] t = "B" -> 2 [] t = "C" -> 3]
ColumnOrders == {q \in [1..Cardinality(Tickers) -> Tickers] : Injective(q)}
UnorderedPairs == {{a, b} : a, b \in Tickers} \ {{a} : a \in Tickers}

\* itertools.combinations(cols, 2): (cols[i], cols[j]) for i < j, by i then j
Combinations(cols) ==
    LET n == Len(cols)
        ij == {x \in (1..n) \X (1..n) : x[1] < x[2]}
        order == CHOOSE f \in [1..Cardinality(ij) -> ij] :
                    \A c, d \in 1..Cardinality(ij) :
                        c < d => f[c][1] * n + f[c][2] < f[d][1] * n + f[d][2]
    IN  [c \in 1..Cardinality(ij) |-> <<cols[order[c][1]], cols[order[c][2]]>>]

Abs(x) == IF x < 0 THEN -x ELSE x

\* 02, lines 27-34: the rows with a defined coefficient, in enumeration order
CorrRows(cols, table) ==
    LET all == Combinations(cols)
        at(c) == table[{all[c][1], all[c][2]}]
        keep == SelectSeq2([c \in 1..Len(all) |-> c], {c \in 1..Len(all) : IsNum(at(c))})
    IN  [k \in 1..Len(keep) |->
            [stock_1 |-> all[keep[k]][1], stock_2 |-> all[keep[k]][2],
             correlation |-> at(keep[k])[2], abs_correlation |-> Abs(at(keep[k])[2])]]

\* 03, lines 35-44: the rows of the pairs pair_chi_square has a result for
ChiRows(cols, table) ==
    LET all == Combinations(cols)
        at(c) == table[{all[c][1], all[c][2]}]
        keep == SelectSeq2([c \in 1..Len(all) |-> c], {c \in 1..Len(all) : IsNum(at(c))})
    IN  [k \in 1..Len(keep) |->
            [stock_1 |-> all[keep[k]][1], stock_2 |-> all[keep[k]][2],
             chi2 |-> at(keep[k])[2]]]

\* DataFrame.head(n)
HeadRows(rows, n) == SubSeq(rows, 1, IF n < Len(rows) THEN n ELSE Len(rows))

\* set(zip(top["stock_1"], top["stock_2"]))
PairSet(top) == {<<top[i].stock_1, top[i].stock_2>> : i \in 1..Len(top)}

\* sorted() of a set of (ticker, ticker) tuples
RECURSIVE SortedPairs(_)
SortedPairs(S) ==
    IF S = {} THEN <<>>
    ELSE LET Code(x) == TickerOrder[x[1]] * (Cardinality(Tickers) + 1) + TickerOrder[x[2]]
             m == CHOOSE x \in S : \A y \in S : Code(x) <= Code(y)
         IN  <<m>> \o SortedPairs(S \ {m})

----------------------------------------------------------------------------
(* adf_test and the choice of the preferred metric *)

None == <<"none", 0>>

\* adf_test: <<pval, stationary>> from the length of the series after dropna
\* and the p-value adfuller returns
AdfTest(n, pval) == IF n < MinObs THEN <<None, FALSE>> ELSE <<Num(pval), pval < Alpha>>

\* a tie of the two p-values goes to the ratio
MutPreferred(sp, rt) ==
    IF sp[2] /\ rt[2]
    THEN (IF sp[1] # None /\ rt[1] # None /\ sp[1][2] < rt[1][2] THEN "spread" ELSE "ratio")
    ELSE IF sp[2] THEN "spread"
    ELSE IF rt[2] THEN "ratio"
    ELSE "none"

\* lines 54-60, from the two results of adf_test
Preferred(sp, rt) ==
    IF sp[2] /\ rt[2]
    THEN (IF sp[1] # None /\ rt[1] # None /\ sp[1][2] <= rt[1][2] THEN "spread" ELSE "ratio")
    ELSE IF sp[2] THEN "spread"
    ELSE IF rt[2] THEN "ratio"
    ELSE "none"

IdleBacktest ==
    price1 = <<>> /\ price2 = <<>> /\ position = <<>> /\ pnl = <<>> /\ returned = FALSE

IdleMain ==
    /\ close = <<>> /\ stationarity = <<>> /\ initial_capital = 0 /\ rowIdx = 0
    /\ portfolio_daily_pnl = <<>> /\ summary_rows = <<>> /\ debug = <<>>
    /\ summary = <<>> /\ equity_curve = <<>> /\ pc = "idle"

IdleScreen ==
    /\ closeCols = <<>> /\ upCols = <<>> /\ corr = <<>> /\ chi = <<>> /\ top_n = 0
    /\ corr_top = <<>> /\ chi_top = <<>> /\ common = <<>> /\ stage = "idle"

IdleAdf ==
    /\ spread_len = 0 /\ ratio_len = 0 /\ spread_adf = 0 /\ ratio_adf = 0
    /\ result = <<>> /\ classified = FALSE

IdleSignals ==
    /\ metric = <<>> /\ entry = DefaultParams[1] /\ exit_band = DefaultParams[2]
    /\ current = 0 /\ carried = 0 /\ val = NaN /\ pos = 0 /\ posPrev = 0

InitSignals ==
    /\ IdleBacktest /\ IdleMain /\ IdleScreen /\ IdleAdf
    /\ metric = <<>>
    /\ \E p \in ParamValues : entry = p[1] /\ exit_band = p[2]
    /\ current = 0
    /\ carried = 0
    /\ val = NaN
    /\ pos = 0
    /\ posPrev = 0

SignalStep ==
    \E x \in MetricValues :
        /\ Changes(Push(metric, x)) <= MaxChanges
        /\ metric' = Push(metric, x)
        /\ val' = ZScore(metric')
        /\ carried' = current
        /\ current' = LoopBody(current, val', entry, exit_band)
        /\ pos' = current'
        /\ posPrev' = pos
        /\ UNCHANGED <<entry, exit_band, notSig>>

NextSignals == SignalStep

SpecSignals == InitSignals /\ [][NextSignals]_vars

----------------------------------------------------------------------------
(* Claims about build_signals *)

Processed == Len(metric) > 0
BadValue(s) == \E j \in 1..Len(s) : ~IsNum(s[j])

\* C1: from a carried-in FLAT state and a defined zscore, the state after the
\* date is SHORT_METRIC (-1) if zscore > entry, LONG_METRIC (+1) if
\* zscore < -entry, FLAT otherwise; FLAT is left only when |zscore| > entry.
C1_FromFlat ==
    (Processed /\ ~IsNaN(val) /\ carried = 0) =>
        /\ Above(val, entry) => pos = -1
        /\ Below(val, entry) => pos = 1
        /\ (~Above(val, entry) /\ ~Below(val, entry)) => pos = 0
        /\ pos # 0 => (Above(val, entry) \/ Below(val, entry))
C1_Witness == Processed /\ carried = 0 /\ pos = 1 /\ Below(val, entry)

\* C2: from LONG_METRIC or SHORT_METRIC and a defined zscore, the state after
\* the date is FLAT if -exit_band <= zscore <= exit_band and unchanged
\* otherwise; the position never flips sign between consecutive dates, and it
\* becomes FLAT only on a date with |zscore| <= exit_band.
C2_FromPosition ==
    /\ (Processed /\ ~IsNaN(val) /\ carried # 0) =>
            pos = (IF Within(val, exit_band) THEN 0 ELSE carried)
    /\ posPrev * pos # -1
    /\ (posPrev # 0 /\ pos = 0) => (~IsNaN(val) /\ Within(val, exit_band))
C2_Witness == Processed /\ carried = -1 /\ pos = -1 /\ Below(val, entry)

\* C3: on a date whose zscore is undefined (window incomplete, std20 zero, or
\* an inf/NaN metric value in the window) the recorded position equals the
\* previous date's position, FLAT on the first date.
C3_UndefinedHolds ==
    /\ (Processed /\ (Len(metric) < LongWin \/ BadValue(metric) \/ Std20(metric) = 0))
            => IsNaN(val)
    /\ (Processed /\ IsNaN(val)) => (pos = posPrev /\ pos = carried)
    /\ Len(metric) = 1 => pos = 0
C3_Witness == Processed /\ IsNaN(val) /\ BadValue(metric) /\ pos = -1

\* C4: every recorded position is -1, 0 or +1, and the state carried into
\* the first date is FLAT.
C4_PositionRange ==
    /\ pos \in {-1, 0, 1}
    /\ posPrev \in {-1, 0, 1}
    /\ Len(metric) <= 1 => carried = 0
C4_Witness == Processed /\ pos = -1 /\ entry # DefaultParams[1]

----------------------------------------------------------------------------
(* backtest_pair as a specification *)

SeqsOfLen(S, n) == [1..n -> S]
Price1Values == {99, 100, 101}
Price2Values == {50, 51}

InitBacktest ==
    /\ IdleSignals /\ IdleMain /\ IdleScreen /\ IdleAdf
    /\ \E n \in 1..MaxT :
          /\ price1 \in SeqsOfLen(Price1Values, n)
          /\ price2 \in SeqsOfLen(Price2Values, n)
          /\ position \in SeqsOfLen({-1, 0, 1}, n)
    /\ pnl = <<>>
    /\ returned = FALSE

RunBacktest ==
    /\ ~returned
    /\ price1 # <<>>
    /\ pnl' = BacktestPair(price1, price2, position)
    /\ returned' = TRUE
    /\ UNCHANGED <<price1, price2, position, notBt>>

NextBacktest == RunBacktest

SpecBacktest == InitBacktest /\ [][NextBacktest]_vars

\* C5: a one-date execution lag: for every date index t >= 2 the PnL is
\* position[t-1] * ((price1[t]-price1[t-1]) - (price2[t]-price2[t-1])), and the
\* PnL of the first date is zero whatever the position on that date; legs
\* [100,101,99] and [50,50,50] with lagged position [0,1,1] give [0,1,-2].
C5_BacktestLag ==
    returned =>
        /\ Len(pnl) = Len(price1)
        /\ pnl[1] = 0
        /\ \A t \in 2..Len(price1) :
              pnl[t] = position[t - 1]
                         * ((price1[t] - price1[t - 1]) - (price2[t] - price2[t - 1]))
        /\ (/\ price1 = <<100, 101, 99>> /\ price2 = <<50, 50, 50>>
            /\ SubSeq(position, 1, 2) = <<1, 1>>) => pnl = <<0, 1, -2>>
C5_Witness ==
    /\ returned /\ price1 = <<100, 101, 99>> /\ price2 = <<50, 50, 50>>
    /\ position = <<1, 1, -1>> /\ pnl = <<0, 1, -2>>

----------------------------------------------------------------------------
(* main of 05 as a specification *)

InitMain ==
    /\ IdleSignals /\ IdleBacktest /\ IdleScreen /\ IdleAdf
    /\ close \in CloseTables
    /\ stationarity \in RowSeqs
    /\ initial_capital \in CapitalValues
    /\ rowIdx = 1
    /\ portfolio_daily_pnl = [d \in Dates |-> 0]
    /\ summary_rows = <<>>
    /\ debug = <<>>
    /\ summary = <<>>
    /\ equity_curve = <<>>
    /\ pc = "loop"

InLoop == pc = "loop" /\ rowIdx <= Len(Selected(stationarity))
ThisRow == Selected(stationarity)[rowIdx]
HasColumns(r) == r.stock_1 \in DOMAIN close /\ r.stock_2 \in DOMAIN close

\* if s1 not in close.columns or s2 not in close.columns: continue
SkipMissingColumn ==
    /\ InLoop
    /\ ~HasColumns(ThisRow)
    /\ rowIdx' = rowIdx + 1
    /\ UNCHANGED <<close, stationarity, initial_capital, portfolio_daily_pnl,
                   summary_rows, debug, summary, equity_curve, pc, notMain>>

\* if len(pair) < 30: continue
SkipShortPair ==
    /\ InLoop
    /\ HasColumns(ThisRow)
    /\ Len(PairDates(close, ThisRow.stock_1, ThisRow.stock_2)) < MinPairLen
    /\ rowIdx' = rowIdx + 1
    /\ UNCHANGED <<close, stationarity, initial_capital, portfolio_daily_pnl,
                   summary_rows, debug, summary, equity_curve, pc, notMain>>

\* lines 74-97: signals, backtest, summary row, portfolio update, debug frame
ProcessPair ==
    /\ InLoop
    /\ HasColumns(ThisRow)
    /\ LET r == ThisRow
           dts == PairDates(close, r.stock_1, r.stock_2)
           p1 == Leg(close, r.stock_1, dts)
           p2 == Leg(close, r.stock_2, dts)
           sig == BuildSignals(PairMetric(r.preferred_metric, p1, p2),
                               DefaultParams[1], DefaultParams[2])
           pl == BacktestPair(p1, p2, sig)
           aligned == FillNa(Reindex(pl, dts, DOMAIN portfolio_daily_pnl), 0)
       IN  /\ Len(dts) >= MinPairLen
           /\ summary_rows' = Append(summary_rows,
                  [stock_1 |-> r.stock_1, stock_2 |-> r.stock_2,
                   metric_used |-> r.preferred_metric,
                   total_pnl |-> SumSeq(pl),
                   final_equity |-> initial_capital + SumSeq(pl),
                   trade_switches |-> TradeSwitches(sig)])
           /\ portfolio_daily_pnl' = AddFill(portfolio_daily_pnl, aligned)
           /\ debug' = Append(debug,
                  [stock_1 |-> r.stock_1, stock_2 |-> r.stock_2, dates |-> dts,
                   position |-> sig, daily_pnl |-> pl])
    /\ rowIdx' = rowIdx + 1
    /\ UNCHANGED <<close, stationarity, initial_capital, summary, equity_curve, pc,
                   notMain>>

AfterLoop == pc = "loop" /\ rowIdx > Len(Selected(stationarity))

\* line 99 with summary_rows == []: the frame has no column "total_pnl" and
\* sort_values raises KeyError before anything is written
FinishRaise ==
    /\ AfterLoop
    /\ summary_rows = <<>>
    /\ pc' = "raised"
    /\ UNCHANGED <<close, stationarity, initial_capital, rowIdx, portfolio_daily_pnl,
                   summary_rows, debug, summary, equity_curve, notMain>>

\* lines 99-102: the sorted summary and the equity curve
FinishOk ==
    /\ AfterLoop
    /\ summary_rows # <<>>
    /\ summary' \in SortValues(summary_rows, "total_pnl")
    /\ equity_curve' = [d \in DOMAIN portfolio_daily_pnl |->
                            initial_capital + CumSum(portfolio_daily_pnl)[d]]
    /\ pc' = "done"
    /\ UNCHANGED <<close, stationarity, initial_capital, rowIdx, portfolio_daily_pnl,
                   summary_rows, debug, notMain>>

NextMain == SkipMissingColumn \/ SkipShortPair \/ ProcessPair \/ FinishRaise \/ FinishOk

SpecMain == InitMain /\ [][NextMain]_vars

\* the PnL a written frame has on date d, zero where the pair has no such date
FramePnl(f, d) ==
    IF \E k \in 1..Len(f.dates) : f.dates[k] = d
    THEN f.daily_pnl[CHOOSE k \in 1..Len(f.dates) : f.dates[k] = d]
    ELSE 0
RECURSIVE SumFrames(_, _)
SumFrames(q, d) == IF q = <<>> THEN 0 ELSE FramePnl(Head(q), d) + SumFrames(Tail(q), d)
RECURSIVE SumTo(_, _)
SumTo(f, d) == IF d = 0 THEN 0 ELSE f[d] + SumTo(f, d - 1)
ProcessedDates == UNION {Range2(debug[i].dates) : i \in 1..Len(debug)}

\* C6 (as stated): the portfolio series is indexed by the union of the trading
\* dates of the processed pairs, its PnL on a date is the sum of the pairs' PnL
\* on that date, and equity is initial_capital plus the running sum.
C6_IndexIsUnionOfPairDates ==
    pc = "done" =>
        /\ DOMAIN equity_curve = ProcessedDates
        /\ \A d \in DOMAIN equity_curve :
              /\ portfolio_daily_pnl[d] = SumFrames(debug, d)
              /\ equity_curve[d] = initial_capital + SumTo(portfolio_daily_pnl, d)

\* C6 (amended): the portfolio series is indexed by every date of the price
\* table; after any number of processed pairs its PnL on a date is the sum of
\* the processed pairs' PnL on that date, zero for a pair without that date;
\* the equity curve written at the end is initial_capital plus the running sum.
C6_PortfolioAggregation ==
    pc \in {"loop", "done", "raised"} =>
        /\ DOMAIN portfolio_daily_pnl = Dates
        /\ \A d \in Dates : portfolio_daily_pnl[d] = SumFrames(debug, d)
        /\ pc = "done" =>
              /\ DOMAIN equity_curve = Dates
              /\ \A d \in Dates :
                    equity_curve[d] = initial_capital + SumTo(portfolio_daily_pnl, d)
C6_Witness ==
    /\ pc = "done"
    /\ Len(debug) >= 2
    /\ \E i \in 1..Len(debug) : Len(debug[i].dates) < NDates
    /\ \A i \in 1..Len(debug) : \E t \in 1..Len(debug[i].dates) : debug[i].daily_pnl[t] # 0
    /\ ProcessedDates # Dates

\* C8: empty inputs give empty, well-formed outputs and never an error: with
\* no selected row, or every selected row skipped, the backtest ends with an
\* empty summary and a flat equity curve.
C8_EmptyInputsFinish ==
    (pc # "loop" /\ summary_rows = <<>>) =>
        /\ pc = "done"
        /\ summary = <<>>
        /\ \A d \in Dates : equity_curve[d] = initial_capital

----------------------------------------------------------------------------
(* 02, 03 and the intersection of 04 as a specification *)

CorrValues == {Num(-9), Num(8), NaN}
ChiValues == {Num(3), Num(5), NaN}
SortedColumns == <<"A", "B", "C">>
ReversedColumns == <<"C", "B", "A">>

InitScreen ==
    /\ IdleSignals /\ IdleBacktest /\ IdleMain /\ IdleAdf
    /\ closeCols \in {SortedColumns, ReversedColumns}
    /\ upCols \in ColumnOrders
    /\ corr \in [UnorderedPairs -> CorrValues]
    /\ chi \in [UnorderedPairs -> ChiValues]
    /\ top_n \in 1..MaxTopN
    /\ corr_top = <<>>
    /\ chi_top = <<>>
    /\ common = <<>>
    /\ stage = "corr"

\* 02, lines 27-36
RunCorrelation ==
    /\ stage = "corr"
    /\ \E sorted \in SortValues(CorrRows(closeCols, corr), "abs_correlation") :
          corr_top' = HeadRows(sorted, top_n)
    /\ stage' = "chi"
    /\ UNCHANGED <<closeCols, upCols, corr, chi, top_n, chi_top, common, notScreen>>

\* 03, lines 35-46
RunChiSquare ==
    /\ stage = "chi"
    /\ \E sorted \in SortValues(ChiRows(upCols, chi), "chi2") :
          chi_top' = HeadRows(sorted, top_n)
    /\ stage' = "common"
    /\ UNCHANGED <<closeCols, upCols, corr, chi, top_n, corr_top, common, notScreen>>

\* 04, lines 34-36
RunIntersect ==
    /\ stage = "common"
    /\ common' = SortedPairs(PairSet(corr_top) \cap PairSet(chi_top))
    /\ stage' = "done"
    /\ UNCHANGED <<closeCols, upCols, corr, chi, top_n, corr_top, chi_top, notScreen>>

NextScreen == RunCorrelation \/ RunChiSquare \/ RunIntersect

SpecScreen == InitScreen /\ [][NextScreen]_vars

InTop(top, a, b) ==
    \E i \in 1..Len(top) : {top[i].stock_1, top[i].stock_2} = {a, b}

\* C7: an unordered pair {a, b} is a candidate pair if and only if it is in
\* both top-N lists, whatever orientation each list gives it and whatever the
\* column orders of the two tables.
C7_IntersectionUnordered ==
    stage = "done" =>
        \A a, b \in Tickers :
            a # b =>
                ((InTop(corr_top, a, b) /\ InTop(chi_top, a, b))
                    <=> (<<a, b>> \in Range2(common) \/ <<b, a>> \in Range2(common)))

\* the order a stable descending sort gives: equal keys in enumeration order
StableOrder(rows, by) ==
    CHOOSE q \in SortValues(rows, by) :
        \A i, j \in 1..Len(rows) :
            (i < j /\ rows[i][by] = rows[j][by]) =>
                \E x, y \in 1..Len(q) : x < y /\ q[x] = rows[i] /\ q[y] = rows[j]

\* C10: both lists are in descending order of their key, and pairs with
\* equal keys keep their enumeration order, so the lists are a function of
\* the input tables.
C10_StableRanking ==
    /\ stage \in {"chi", "common", "done"} =>
          corr_top = HeadRows(StableOrder(CorrRows(closeCols, corr), "abs_correlation"), top_n)
    /\ stage \in {"common", "done"} =>
          chi_top = HeadRows(StableOrder(ChiRows(upCols, chi), "chi2"), top_n)

----------------------------------------------------------------------------
(* adf_test and the metric choice as a specification *)

InitAdf ==
    /\ IdleSignals /\ IdleBacktest /\ IdleMain /\ IdleScreen
    /\ spread_len \in {MinObs - 1, MinObs}
    /\ ratio_len \in {MinObs - 1, MinObs}
    /\ spread_adf \in 0..MaxP
    /\ ratio_adf \in 0..MaxP
    /\ result = <<>>
    /\ classified = FALSE

\* 04, lines 51-74
Classify ==
    /\ ~classified
    /\ LET sp == AdfTest(spread_len, spread_adf)
           rt == AdfTest(ratio_len, ratio_adf)
       IN  result' = [spread_adf_p |-> sp[1], spread_stationary |-> sp[2],
                      ratio_adf_p |-> rt[1], ratio_stationary |-> rt[2],
                      preferred_metric |-> Preferred(sp, rt)]
    /\ classified' = TRUE
    /\ UNCHANGED <<spread_len, ratio_len, spread_adf, ratio_adf, notAdf>>

NextAdf == Classify

SpecAdf == InitAdf /\ [][NextAdf]_vars

\* C9: preferred_metric is "spread" only if spread_stationary and "ratio" only
\* if ratio_stationary; it is "none" exactly when both flags are false (an
\* untested series has a false flag); when both are stationary it is "spread"
\* iff the spread's p-value <= the ratio's, otherwise "ratio".
C9_MetricSelection ==
    classified =>
        /\ result.preferred_metric \in {"spread", "ratio", "none"}
        /\ result.spread_stationary <=> (spread_len >= MinObs /\ spread_adf < Alpha)
        /\ result.ratio_stationary <=> (ratio_len >= MinObs /\ ratio_adf < Alpha)
        /\ result.preferred_metric = "spread" => result.spread_stationary
        /\ result.preferred_metric = "ratio" => result.ratio_stationary
        /\ result.preferred_metric = "none"
              <=> (~result.spread_stationary /\ ~result.ratio_stationary)
        /\ (result.spread_stationary /\ result.ratio_stationary) =>
              (result.preferred_metric = "spread" <=> spread_adf <= ratio_adf)
C9_Witness ==
    /\ classified
    /\ result.spread_stationary /\ result.ratio_stationary
    /\ spread_adf = ratio_adf
    /\ result.preferred_metric = "spread"

====
